---- MODULE Spec2Model ----
(***************************************************************************)
(* Model of the PDF pagination / text-rehydration core of the CV           *)
(* repository:                                                             *)
(*   - findOptimalCutPositions, the cut-point planner, in its forward-only *)
(*     form (src/unnamed/part_008:631-662) and in its "nearest" form that  *)
(*     also accepts cut points before the ideal position                   *)
(*     (src/unnamed/part_008:1420-1451, identical text in                  *)
(*     src/generateCvPdf.js:457-488);                                      *)
(*   - findSafeCutPoints, the midpoint cut-point derivation                *)
(*     (src/unnamed/part_008:252-305) and its older form that returns the  *)
(*     tops of the elements (src/generateCvPdf.js:250-275);                *)
(*   - captureWithVirtualA4Window, the capture loop over the slice plan    *)
(*     (src/unnamed/part_008:317-562 and :1249-1372);                      *)
(*   - overlayTextOnPdf, the text reconciler                               *)
(*     (src/unnamed/part_005:295-399 and :1115-1355);                      *)
(*   - rehydratePdf, as far as it writes its options into CONFIG           *)
(*     (src/unnamed/part_005:1361-1419).                                   *)
(* All geometry is integer pixels: the callers pass Math.round-ed cut      *)
(* points, scrollHeight and Math.round(width * 1.414).                     *)
(***************************************************************************)
EXTENDS Integers, Sequences, FiniteSets, TLC

\* ------------------------------------------------------------------ bounds

\* Longest cut-point list handed to the planner.
MaxCutPoints == 3

\* Values a cut point of the list may take (unsorted lists and duplicates
\* are drawn too: the planner takes any array).
CutPointChoices == {-50, 0, 500, 1010, 1200, 1201, 2150}

PageHeightChoices == {150, 1000}

TotalHeightChoices == {0, 1000, 1150, 3000}

\* "forward": part_008:631-662.  "nearest": part_008:1420-1451 and
\* generateCvPdf.js:457-488 (the same text).
Variants == {"forward", "nearest"}

\* ------------------------------------------------------- program constants

\* part_008:648  cutPoint <= minNextPos + 200
ForwardTolerance == 200

\* part_008:1437 cutPoint <= idealNextPos + 100
NearestTolerance == 100

\* ------------------------------------------------------------------- state

VARIABLES
    variant,        \* which findOptimalCutPositions is running
    safeCutPoints,  \* argument: the cut-point array
    totalHeight,    \* argument
    pageHeight,     \* argument
    positions,      \* local: const positions = [0]
    currentPos,     \* local: let currentPos = 0
    pc,             \* "idle" | "loop" | "done": position in the function
    callNo,         \* number of calls started with these arguments
    firstResult,    \* what the first call returned
    givenCutPoints, \* the cut-point array as the caller built it
    callsToMake,    \* how often the caller calls the planner
    blocks,         \* the elements matched by the break selectors, as
                    \* [y, height] records in document order of the query
    rehydrateVersion,       \* which overlayTextOnPdf is running
    pagesLen,               \* pages.length of the raster PDF
    pdfSize,                \* width and height of its pages, in points
    adjustFontSizeToWidth,  \* CONFIG.positioning.adjustFontSizeToWidth
    textItems,              \* textData.textItems
    itemIdx,                \* index of the item the for-of loop is at
    itemsProcessed,
    itemsSkipped,
    itemsAdjusted,
    drawn,                  \* the page.drawText calls that returned
    opc,                    \* "off" | "loop" | "returned" | "threw"
    attempt,                \* the last pass through the try block of the loop
    derivation,             \* which findSafeCutPoints is running
    captureVersion,         \* which captureWithVirtualA4Window is running
    shotIdx,                \* the capture loop's i, counted from 1
    screenshots,            \* the screenshots array, as the offsets captured
    cpc,                    \* "off" | "plan" | "loop" | "after" | "returned"
    positioning,            \* the module-level CONFIG.positioning
    runs,                   \* the rehydratePdf calls made by this process
    rpc,                    \* "off" | "idle" | "running"
    sanitizeVersion,        \* which overlayTextOnPdf cleans the text
    itemText,               \* item.text, as UTF-16 code units
    cleanText,              \* the string handed to page.drawText
    tpc,                    \* "off" | "raw" | "clean"
    extractVersion,         \* which extractTextCoordinates is running
    nodeText,               \* node.textContent.trim(), as characters
    charLines,              \* the line of the layout each character is on
    rects,                  \* range.getClientRects() of the text node
    rectIdx,                \* the loop's i, counted from 1
    charIndex,              \* let charIndex = 0
    lines,                  \* [start, end, text] of each pass of the loop
    epc,                    \* "off" | "loop" | "done"
    outputPath,             \* options.output, as path tokens
    files,                  \* the files on disk that main wrote: path -> content
    rehydratedPath,         \* what rehydratePdf returned
    mpc,                    \* position in main
    exitCode                \* -1 while running

plannerVars == <<variant, safeCutPoints, totalHeight, pageHeight, positions,
                 currentPos, pc, callNo, firstResult, givenCutPoints,
                 callsToMake>>

overlayVars == <<rehydrateVersion, pagesLen, pdfSize, adjustFontSizeToWidth,
                 textItems, itemIdx, itemsProcessed, itemsSkipped, itemsAdjusted,
                 drawn, opc, attempt>>

captureVars == <<captureVersion, shotIdx, screenshots, cpc>>

configVars == <<positioning, runs, rpc>>

textVars == <<sanitizeVersion, itemText, cleanText, tpc>>

extractVars == <<extractVersion, nodeText, charLines, rects, rectIdx, charIndex,
                 lines, epc>>

mainVars == <<outputPath, files, rehydratedPath, mpc, exitCode>>

laterVars == <<textVars, extractVars, mainVars>>

otherVars == <<derivation, captureVars, configVars, laterVars>>

vars == <<plannerVars, blocks, overlayVars, otherVars>>

\* --------------------------------------------------------------- sequences

SeqsUpTo(S, n) == UNION {[1..k -> S] : k \in 0..n}

Elems(s) == {s[i] : i \in 1..Len(s)}

\* ----------------------------------------------- findOptimalCutPositions

\* let bestCutPoint = minNextPos; let minDistance = Infinity;
InitialBest(minNextPos) ==
    [bestCutPoint |-> minNextPos, minDistance |-> 0, infinite |-> TRUE]

\* distance < minDistance, minDistance possibly Infinity
Closer(distance, acc) == acc.infinite \/ distance < acc.minDistance

\* ForwardAccepts with the window taken on both sides of minNextPos.
ForwardAcceptsSym(cutPoint, minNextPos) ==
    /\ cutPoint >= minNextPos - ForwardTolerance
    /\ cutPoint <= minNextPos + ForwardTolerance

\* ForwardAccepts with the end of the window excluded.
ForwardAcceptsExcl(cutPoint, minNextPos) ==
    /\ cutPoint >= minNextPos
    /\ cutPoint < minNextPos + ForwardTolerance

\* if (cutPoint >= minNextPos && cutPoint <= minNextPos + 200)
ForwardAccepts(cutPoint, minNextPos) ==
    /\ cutPoint >= minNextPos
    /\ cutPoint <= minNextPos + ForwardTolerance

\* The for-of loop of the forward-only planner, from element i on.
RECURSIVE ScanForward(_, _, _, _)
ScanForward(cuts, i, minNextPos, acc) ==
    IF i > Len(cuts) THEN acc
    ELSE LET cutPoint == cuts[i]
             distance == cutPoint - minNextPos
         IN  IF ForwardAccepts(cutPoint, minNextPos) /\ Closer(distance, acc)
             THEN ScanForward(cuts, i + 1, minNextPos,
                      [bestCutPoint |-> cutPoint, minDistance |-> distance,
                       infinite |-> FALSE])
             ELSE ScanForward(cuts, i + 1, minNextPos, acc)

Abs(x) == IF x < 0 THEN -x ELSE x

\* NearestAccepts with cutPoint >= currentPos.
NearestAcceptsAtCurrent(cutPoint, cur, idealNextPos) ==
    /\ cutPoint >= cur
    /\ cutPoint <= idealNextPos + NearestTolerance

\* if (cutPoint > currentPos && cutPoint <= idealNextPos + 100)
NearestAccepts(cutPoint, cur, idealNextPos) ==
    /\ cutPoint > cur
    /\ cutPoint <= idealNextPos + NearestTolerance

\* The for-of loop of the nearest planner, from element i on.
RECURSIVE ScanNearest(_, _, _, _, _)
ScanNearest(cuts, i, cur, idealNextPos, acc) ==
    IF i > Len(cuts) THEN acc
    ELSE LET cutPoint == cuts[i]
             distance == Abs(cutPoint - idealNextPos)
         IN  IF NearestAccepts(cutPoint, cur, idealNextPos) /\ Closer(distance, acc)
             THEN ScanNearest(cuts, i + 1, cur, idealNextPos,
                      [bestCutPoint |-> cutPoint, minDistance |-> distance,
                       infinite |-> FALSE])
             ELSE ScanNearest(cuts, i + 1, cur, idealNextPos, acc)

\* bestCutPoint at the end of one pass of the while loop
BestCutPoint(v, cuts, cur, ph) ==
    IF v = "forward"
    THEN ScanForward(cuts, 1, cur + ph, InitialBest(cur + ph)).bestCutPoint
    ELSE ScanNearest(cuts, 1, cur, cur + ph, InitialBest(cur + ph)).bestCutPoint

\* LastPage with > for >=.
LastPageAfter(nextPos, total) == nextPos > total

\* if (minNextPos >= totalHeight) break;
LastPage(nextPos, total) == nextPos >= total

\* while (currentPos < totalHeight) { ... if (...) break; ...
LoopContinues(cur, total, ph) ==
    cur < total /\ ~LastPage(cur + ph, total)

\* Call with positions kept from one call to the next, as a variable outside
\* the function would be.
CallKeepsPositions ==
    /\ pc \in {"idle", "done"}
    /\ callNo < callsToMake
    /\ positions' = (IF pc = "idle" THEN <<0>> ELSE positions)
    /\ currentPos' = 0
    /\ pc' = "loop"
    /\ callNo' = callNo + 1
    /\ firstResult' = (IF pc = "done" THEN positions ELSE firstResult)
    /\ UNCHANGED <<variant, safeCutPoints, totalHeight, pageHeight, givenCutPoints,
                   callsToMake, blocks, overlayVars, otherVars>>

\* Entry: const positions = [0]; let currentPos = 0;  The caller may call
\* again with the same arguments once the first call has returned.
Call ==
    /\ pc \in {"idle", "done"}
    /\ callNo < callsToMake
    /\ positions' = <<0>>
    /\ currentPos' = 0
    /\ pc' = "loop"
    /\ callNo' = callNo + 1
    /\ firstResult' = (IF pc = "done" THEN positions ELSE firstResult)
    /\ UNCHANGED <<variant, safeCutPoints, totalHeight, pageHeight, givenCutPoints,
                   callsToMake, blocks, overlayVars, otherVars>>

\* One pass of the while loop that does not break:
\* positions.push(bestCutPoint); currentPos = bestCutPoint;
Iterate ==
    /\ pc = "loop"
    /\ LoopContinues(currentPos, totalHeight, pageHeight)
    /\ LET best == BestCutPoint(variant, safeCutPoints, currentPos, pageHeight)
       IN  /\ positions' = Append(positions, best)
           /\ currentPos' = best
    /\ UNCHANGED <<variant, safeCutPoints, totalHeight, pageHeight, pc, callNo,
                   firstResult, givenCutPoints, callsToMake, blocks, overlayVars, otherVars>>

\* The loop condition fails or the break is taken: return positions;
Return ==
    /\ pc = "loop"
    /\ ~LoopContinues(currentPos, totalHeight, pageHeight)
    /\ pc' = "done"
    /\ UNCHANGED <<variant, safeCutPoints, totalHeight, pageHeight, positions,
                   currentPos, callNo, firstResult, givenCutPoints, callsToMake,
                   blocks, overlayVars, otherVars>>

\* part_005:682-727  CONFIG.positioning as the module is loaded, without
\* adjustFontSizeToWidth, which is the variable of that name.  The font size
\* factors are in hundredths.
DefaultPositioning ==
    [mode |-> "auto", strategy |-> "baseline", offsetY |-> 0, offsetX |-> 0,
     offsetsByType |-> [h1 |-> 0, h2 |-> 0, h3 |-> 0, h4 |-> 0, h5 |-> 0,
                        h6 |-> 0, body |-> 0],
     fontSizeAdjustments |-> [h1 |-> 120, h2 |-> 115, h3 |-> 110, h4 |-> 105,
                              h5 |-> 102, h6 |-> 100, body |-> 95]]

\* part_005:687  adjustFontSizeToWidth: true
DefaultAdjustFontSizeToWidth == TRUE

\* Nothing has gone through the try block yet.  tried counts the passes
\* through the try block, drawFailures those in which drawText threw.
NoAttempt ==
    [item |-> 0, measureCalled |-> FALSE, measureThrew |-> FALSE,
     drawThrew |-> FALSE, size |-> <<0, 1>>, nominal |-> <<0, 1>>,
     tried |-> 0, drawFailures |-> 0]

\* No text is being cleaned.
SanitizeOff ==
    /\ sanitizeVersion = "basic"
    /\ itemText = <<>>
    /\ cleanText = <<>>
    /\ tpc = "off"

\* extractTextCoordinates is not running.
ExtractOff ==
    /\ extractVersion = "equal"
    /\ nodeText = <<>>
    /\ charLines = <<>>
    /\ rects = <<>>
    /\ rectIdx = 1
    /\ charIndex = 0
    /\ lines = <<>>
    /\ epc = "off"

\* main is not running.
MainOff ==
    /\ outputPath = <<>>
    /\ files = {}
    /\ rehydratedPath = <<>>
    /\ mpc = "off"
    /\ exitCode = -1

LaterOff == SanitizeOff /\ ExtractOff /\ MainOff

\* captureWithVirtualA4Window and rehydratePdf are not running; the module
\* configuration is as loaded.
OthersOff ==
    /\ LaterOff
    /\ derivation = "midpoint"
    /\ captureVersion = "tiled"
    /\ shotIdx = 1
    /\ screenshots = <<>>
    /\ cpc = "off"
    /\ positioning = DefaultPositioning
    /\ runs = <<>>
    /\ rpc = "off"

\* overlayTextOnPdf is not running.
OverlayOff ==
    /\ rehydrateVersion = "basic"
    /\ pagesLen = 1
    /\ pdfSize = [width |-> <<900, 1>>, height |-> <<1273, 1>>]
    /\ adjustFontSizeToWidth = TRUE
    /\ textItems = <<>>
    /\ itemIdx = 1
    /\ itemsProcessed = 0
    /\ itemsSkipped = 0
    /\ itemsAdjusted = 0
    /\ drawn = <<>>
    /\ opc = "off"
    /\ attempt = NoAttempt

Init ==
    /\ variant \in Variants
    /\ safeCutPoints \in SeqsUpTo(CutPointChoices, MaxCutPoints)
    /\ givenCutPoints = safeCutPoints
    /\ totalHeight \in TotalHeightChoices
    /\ pageHeight \in PageHeightChoices
    /\ positions = <<>>
    /\ currentPos = 0
    /\ pc = "idle"
    /\ callNo = 0
    /\ firstResult = <<>>
    /\ callsToMake = 2
    /\ blocks = <<>>
    /\ OverlayOff
    /\ OthersOff

Next == Call \/ Iterate \/ Return

Spec == Init /\ [][Next]_vars

\* The function is synchronous: once called it runs to its return.
LiveSpec == Spec /\ WF_vars(Next)

\* --------------------------------------------------------- findSafeCutPoints

\* Longest list of matched elements.
MaxBlocks == 3

\* Elements the break selectors may match: [y, height] in document pixels.
\* Sections that follow each other, a section with an item nested in it, an
\* element below the minimum height, one of exactly the minimum height.
BlockChoices ==
    { [y |-> 0,    height |-> 1250],
      [y |-> 1310, height |-> 500],
      [y |-> 1311, height |-> 100],
      [y |-> 100,  height |-> 2000],
      [y |-> 1200, height |-> 50],
      [y |-> 1900, height |-> 700],
      [y |-> 2600, height |-> 300],
      [y |-> 600,  height |-> 200] }

\* part_008:67  minSectionHeight: 100
MinSectionHeight == 100

\* part_008:385, part_005:1146  Math.round(CONFIG.viewport.width * 1.414),
\* viewport width 900
WindowHeight == 1273

\* TallEnough with > for >=.
TallerThanMin(item) == item.height > MinSectionHeight

\* .filter(item => item.height >= config.pagination.minSectionHeight)
\* generateCvPdf.js:267  if (rect.height >= config.pagination.minSectionHeight)
TallEnough(item) == item.height >= MinSectionHeight

\* Where .sort((a, b) => a.y - b.y), a stable sort, puts e among the
\* already sorted elements that preceded it: after every element with y <= e.y.
InsertByY(sorted, e) ==
    LET k == Cardinality({i \in 1..Len(sorted) : sorted[i].y <= e.y})
    IN  SubSeq(sorted, 1, k) \o <<e>> \o SubSeq(sorted, k + 1, Len(sorted))

RECURSIVE SortByY(_)
SortByY(s) ==
    IF s = <<>> THEN <<>>
    ELSE InsertByY(SortByY(SubSeq(s, 1, Len(s) - 1)), s[Len(s)])

\* .map(...).filter(...).sort(...)
SortedElements(bs) == SortByY(SelectSeq(bs, TallEnough))

\* Math.round(n / 2) for an integer n: halves round towards +Infinity.
RoundHalf(n) == (n + 1) \div 2

\* MiddlePoint taken from the top of the previous element, not its end.
MiddlePointFromTop(prevElement, currentElement) ==
    RoundHalf(prevElement.y + currentElement.y)

\* const prevEnd = prevElement.y + prevElement.height;
\* const currentStart = currentElement.y;
\* const middlePoint = Math.round((prevEnd + currentStart) / 2);
MiddlePoint(prevElement, currentElement) ==
    RoundHalf((prevElement.y + prevElement.height) + currentElement.y)

\* const cutPoints = [0]; for (let i = 1; i < sortedElements.length; i++) push
PushedCutPoints(sorted) ==
    <<0>> \o [i \in 1..(Len(sorted) - 1) |-> MiddlePoint(sorted[i], sorted[i + 1])]

RECURSIVE Ascending(_)
Ascending(S) ==
    IF S = {} THEN <<>>
    ELSE LET m == CHOOSE x \in S : \A y \in S : x <= y
         IN  <<m>> \o Ascending(S \ {m})

\* FindSafeCutPointsOf returning cutPoints as pushed.
FindSafeCutPointsAsPushed(bs) == PushedCutPoints(SortedElements(bs))

\* return [...new Set(cutPoints)].sort((a, b) => a - b);
FindSafeCutPointsOf(bs) == Ascending(Elems(PushedCutPoints(SortedElements(bs))))

\* captureWithVirtualA4Window, part_008:393:
\* const safeCutPoints = await findSafeCutPoints(page);
FindSafeCutPoints ==
    /\ pc = "analyse"
    /\ derivation = "midpoint"
    /\ safeCutPoints' = FindSafeCutPointsOf(blocks)
    /\ givenCutPoints' = safeCutPoints'
    /\ pc' = "idle"
    /\ UNCHANGED <<variant, totalHeight, pageHeight, positions, currentPos, callNo,
                   firstResult, callsToMake, blocks, overlayVars, otherVars>>

\* "midpoint": part_008:252-305 (and :1187-1240).
\* "top": the older findSafeCutPoints of generateCvPdf.js:250-275.
Derivations == {"midpoint", "top"}

\* elements.forEach(el => { if (rect.height >= minSectionHeight)
\*                             cutPoints.push(Math.round(absoluteY)); })
TopsPushed(bs) == {bs[i].y : i \in {j \in 1..Len(bs) : TallEnough(bs[j])}}

\* generateCvPdf.js:250-275: const cutPoints = [0]; ...push...;
\* return [...new Set(cutPoints)].sort((a, b) => a - b);
FindSafeCutPointsByTopOf(bs) == Ascending({0} \cup TopsPushed(bs))

\* generateCvPdf.js:328  safeCutPoints = await findSafeCutPoints(page);
FindSafeCutPointsByTop ==
    /\ pc = "analyse"
    /\ derivation = "top"
    /\ safeCutPoints' = FindSafeCutPointsByTopOf(blocks)
    /\ givenCutPoints' = safeCutPoints'
    /\ pc' = "idle"
    /\ UNCHANGED <<variant, totalHeight, pageHeight, positions, currentPos, callNo,
                   firstResult, callsToMake, blocks, overlayVars, otherVars>>

\* findSafeCutPoints on its own, in either form, on any list of matched
\* elements.
CutPointInit ==
    /\ derivation \in Derivations
    /\ variant = (IF derivation = "midpoint" THEN "forward" ELSE "nearest")
    /\ blocks \in SeqsUpTo(BlockChoices, MaxBlocks)
    /\ safeCutPoints = <<>>
    /\ givenCutPoints = <<>>
    /\ totalHeight = 0
    /\ pageHeight = WindowHeight
    /\ positions = <<>>
    /\ currentPos = 0
    /\ pc = "analyse"
    /\ callNo = 0
    /\ firstResult = <<>>
    /\ callsToMake = 0
    /\ OverlayOff
    /\ captureVersion = "tiled"
    /\ shotIdx = 1
    /\ screenshots = <<>>
    /\ cpc = "off"
    /\ positioning = DefaultPositioning
    /\ runs = <<>>
    /\ rpc = "off"
    /\ LaterOff

CutPointNext == FindSafeCutPoints \/ FindSafeCutPointsByTop

CutPointSpec == CutPointInit /\ [][CutPointNext]_vars

\* The capture pipeline: the planner runs once, on the cut points derived
\* from the page, with the A4 window height as page height.
PipelineInit ==
    /\ variant = "forward"
    /\ blocks \in SeqsUpTo(BlockChoices, MaxBlocks)
    /\ safeCutPoints = <<>>
    /\ givenCutPoints = <<>>
    /\ totalHeight \in TotalHeightChoices
    /\ pageHeight = WindowHeight
    /\ positions = <<>>
    /\ currentPos = 0
    /\ pc = "analyse"
    /\ callNo = 0
    /\ firstResult = <<>>
    /\ callsToMake = 1
    /\ OverlayOff
    /\ OthersOff

PipelineNext == FindSafeCutPoints \/ Call \/ Iterate \/ Return

PipelineSpec == PipelineInit /\ [][PipelineNext]_vars

\* ----------------------------------------------- captureWithVirtualA4Window

\* "tiled": part_008:317-562, which runs the forward-only planner.
\* "fixed": part_008:1249-1372, which runs the nearest planner.
CaptureVersions == {"tiled", "fixed"}

\* Heights of the rendered document: one viewport (the least scrollHeight
\* of a 900 x 1273 viewport), and two or three windows not wholly filled.
CaptureHeightChoices == {1273, 1400, 2500, 3000}

\* part_008:1327  scrollY + windowHeight > totalHeight + 100
CaptureTolerance == 100

\* part_008:544  if (screenshots.length > 2)
KeptWhole == 2

\* ExceedsContent without the tolerance.
ExceedsContentStrict(scrollY, total) == scrollY + WindowHeight > total

\* if (scrollY + windowHeight > totalHeight + 100) { ...; break; }
ExceedsContent(scrollY, total) ==
    scrollY + WindowHeight > total + CaptureTolerance

\* "fixed" only: the window at this offset passes the end of the content.
BreaksAt(i) ==
    captureVersion = "fixed" /\ ExceedsContent(positions[i], totalHeight)

\* scrollPositions = findOptimalCutPositions(...); const screenshots = [];
StartCapture ==
    /\ cpc = "plan"
    /\ pc = "done"
    /\ cpc' = "loop"
    /\ shotIdx' = 1
    /\ screenshots' = <<>>
    /\ UNCHANGED <<plannerVars, blocks, overlayVars, derivation, captureVersion,
                   configVars, laterVars>>

\* One pass of the for loop: scroll, screenshot, screenshots.push(...)
CaptureSlice ==
    /\ cpc = "loop"
    /\ shotIdx <= Len(positions)
    /\ ~BreaksAt(shotIdx)
    /\ screenshots' = Append(screenshots,
                          [page |-> shotIdx, offset |-> positions[shotIdx]])
    /\ shotIdx' = shotIdx + 1
    /\ UNCHANGED <<plannerVars, blocks, overlayVars, derivation, captureVersion,
                   cpc, configVars, laterVars>>

\* The break of part_008:1327-1330.
CaptureBreak ==
    /\ cpc = "loop"
    /\ shotIdx <= Len(positions)
    /\ BreaksAt(shotIdx)
    /\ cpc' = "after"
    /\ UNCHANGED <<plannerVars, blocks, overlayVars, derivation, captureVersion,
                   shotIdx, screenshots, configVars, laterVars>>

\* i < scrollPositions.length fails.
CaptureLoopEnds ==
    /\ cpc = "loop"
    /\ shotIdx > Len(positions)
    /\ cpc' = "after"
    /\ UNCHANGED <<plannerVars, blocks, overlayVars, derivation, captureVersion,
                   shotIdx, screenshots, configVars, laterVars>>

\* "tiled": if (screenshots.length > 2) { screenshots.pop(); ... }
\* then, in both: await browser.close(); return screenshots;
CaptureReturn ==
    /\ cpc = "after"
    /\ screenshots' =
          IF captureVersion = "tiled" /\ Len(screenshots) > KeptWhole
          THEN SubSeq(screenshots, 1, Len(screenshots) - 1)
          ELSE screenshots
    /\ cpc' = "returned"
    /\ UNCHANGED <<plannerVars, blocks, overlayVars, derivation, captureVersion,
                   shotIdx, configVars, laterVars>>

\* The page is loaded and prepared; smartBreak is on (part_008:65, :1000).
CaptureInit ==
    /\ captureVersion \in CaptureVersions
    /\ variant = (IF captureVersion = "tiled" THEN "forward" ELSE "nearest")
    /\ blocks \in SeqsUpTo(BlockChoices, MaxBlocks)
    /\ safeCutPoints = <<>>
    /\ givenCutPoints = <<>>
    /\ totalHeight \in CaptureHeightChoices
    /\ pageHeight = WindowHeight
    /\ positions = <<>>
    /\ currentPos = 0
    /\ pc = "analyse"
    /\ callNo = 0
    /\ firstResult = <<>>
    /\ callsToMake = 1
    /\ OverlayOff
    /\ derivation = "midpoint"
    /\ shotIdx = 1
    /\ screenshots = <<>>
    /\ cpc = "plan"
    /\ positioning = DefaultPositioning
    /\ runs = <<>>
    /\ rpc = "off"
    /\ LaterOff

CaptureNext ==
    \/ FindSafeCutPoints \/ Call \/ Iterate \/ Return
    \/ StartCapture \/ CaptureSlice \/ CaptureBreak \/ CaptureLoopEnds
    \/ CaptureReturn

CaptureSpec == CaptureInit /\ [][CaptureNext]_vars

\* ---------------------------------------------------------- overlayTextOnPdf

\* Longest list of text items, and most pages of the raster PDF.
MaxItems == 2

MaxPages == 2

\* Exact fractions <<numerator, denominator>>, denominator > 0, in lowest
\* terms: the scale factors, font sizes and widths are not integers.
RECURSIVE GCD(_, _)
GCD(a, b) == IF b = 0 THEN a ELSE GCD(b, a % b)

Rat(n, d) == LET g == GCD(Abs(n), d) IN <<n \div g, d \div g>>

RMul(a, b) ==
    LET g1 == GCD(Abs(a[1]), b[2])
        g2 == GCD(Abs(b[1]), a[2])
    IN  Rat((a[1] \div g1) * (b[1] \div g2), (a[2] \div g2) * (b[2] \div g1))

\* a / b for b > 0
RDiv(a, b) == RMul(a, <<b[2], b[1]>>)

RLt(a, b) == a[1] * b[2] < b[1] * a[2]

RLe(a, b) == a[1] * b[2] <= b[1] * a[2]

\* part_005:659  CONFIG.viewport.width
ViewportWidth == 900

\* Page sizes of the PDF handed in: one point per pixel, and the A4 page the
\* capture pipeline writes (part_008:678-679, 595.28pt x 841.89pt).
PdfPageSizes ==
    { [width |-> <<900, 1>>, height |-> <<1273, 1>>],
      [width |-> Rat(59528, 100), height |-> Rat(84189, 100)] }

\* Text items: top y, bottom, height, font size and width in pixels, element
\* type and tag.  A line above the document, lines on the first, second and
\* third window.
ItemChoices ==
    { [y |-> -5,   bottom |-> 7,    height |-> 12, fontSize |-> 10, width |-> 200,
       elementType |-> "body",    tagName |-> "p"],
      [y |-> 50,   bottom |-> 62,   height |-> 12, fontSize |-> 10, width |-> 200,
       elementType |-> "heading", tagName |-> "h6"],
      [y |-> 1273, bottom |-> 1293, height |-> 20, fontSize |-> 16, width |-> 200,
       elementType |-> "heading", tagName |-> "h1"],
      [y |-> 2546, bottom |-> 2558, height |-> 12, fontSize |-> 10, width |-> 0,
       elementType |-> "body",    tagName |-> "span"] }

\* Text items at the end of a window: a line that starts on the first window
\* and ends on the second, one that starts on the second and ends on the
\* third, the last line that fits the first window whole, and a line above
\* the document.
LineEndItemChoices ==
    { [y |-> 1265, bottom |-> 1285, height |-> 20, fontSize |-> 10, width |-> 200,
       elementType |-> "body",    tagName |-> "p"],
      [y |-> 2540, bottom |-> 2560, height |-> 20, fontSize |-> 16, width |-> 0,
       elementType |-> "heading", tagName |-> "h2"],
      [y |-> 1253, bottom |-> 1273, height |-> 20, fontSize |-> 10, width |-> 200,
       elementType |-> "body",    tagName |-> "p"],
      [y |-> -5,   bottom |-> 7,    height |-> 12, fontSize |-> 10, width |-> 200,
       elementType |-> "body",    tagName |-> "p"] }

\* What selectedFont.widthOfTextAtSize(cleanText, size) may do: throw, or
\* return the text's width, which is its width at size 1 times the size.
MeasureOutcomes ==
    { [throws |-> TRUE,  unit |-> <<0, 1>>],
      [throws |-> FALSE, unit |-> <<0, 1>>],
      [throws |-> FALSE, unit |-> <<10, 1>>],
      [throws |-> FALSE, unit |-> <<16, 1>>],
      [throws |-> FALSE, unit |-> <<40, 3>>],
      [throws |-> FALSE, unit |-> <<200, 7>>] }

\* part_005:711-723  fontSizeAdjust and fontSizeAdjustments, as configured
FontSizeAdjust == <<1, 1>>

FontSizeAdjustments ==
    [t \in DOMAIN DefaultPositioning.fontSizeAdjustments |->
        Rat(DefaultPositioning.fontSizeAdjustments[t], 100)]

\* part_005:1197-1207  fontSizeMultiplier
FontSizeMultiplier(item) ==
    IF item.elementType = "heading" /\ item.tagName \in DOMAIN FontSizeAdjustments
    THEN RMul(FontSizeAdjust, FontSizeAdjustments[item.tagName])
    ELSE IF item.elementType = "body"
         THEN RMul(FontSizeAdjust, FontSizeAdjustments.body)
         ELSE FontSizeAdjust

\* const scaleX = pdfWidth / CONFIG.viewport.width;
ScaleX(size) == RDiv(size.width, <<ViewportWidth, 1>>)

\* const scaleY = pdfHeight / windowHeight;
ScaleY(size) == RDiv(size.height, <<WindowHeight, 1>>)

\* PageIndexOf with the quotient truncated towards zero, not floored.
PageIndexTruncated(y) == IF y < 0 THEN -((-y) \div WindowHeight) ELSE y \div WindowHeight

\* const pageIndex = Math.floor(item.y / windowHeight);
PageIndexOf(y) == y \div WindowHeight

\* RelativeYOf with the height of the PDF page, in whole points, for the
\* height of the window.
RelativeYByPdfHeight(y, pageIndex) ==
    y - pageIndex * (pdfSize.height[1] \div pdfSize.height[2])

\* const relativeY = item.y - (pageIndex * windowHeight);
RelativeYOf(y, pageIndex) == y - pageIndex * WindowHeight

\* a + b over the least common denominator
RAdd(a, b) ==
    LET g == GCD(a[2], b[2])
    IN  Rat(a[1] * (b[2] \div g) + b[1] * (a[2] \div g), (a[2] \div g) * b[2])

RSub(a, b) == RAdd(a, <<-b[1], b[2]>>)

\* part_005:1183-1191  elementOffsetY
ElementOffsetY(cfg, item) ==
    IF item.elementType = "heading" /\ item.tagName \in DOMAIN cfg.offsetsByType
    THEN cfg.offsetY + cfg.offsetsByType[item.tagName]
    ELSE IF item.elementType = "body"
         THEN cfg.offsetY + cfg.offsetsByType.body
         ELSE cfg.offsetY

\* part_005:1212-1242  adjustedY: in auto mode the bottom of the rect less
\* 15% of its height; in manual mode by strategy, estimatedBaseline being
\* rect.top + fontSize * 0.75 and estimatedDescent fontSize * 0.203
\* (part_005:977-978, :1024-1025).
AdjustedYOf(cfg, item) ==
    LET offset == <<ElementOffsetY(cfg, item), 1>>
    IN  IF cfg.mode = "auto"
        THEN RAdd(RSub(<<item.bottom, 1>>, Rat(item.height * 15, 100)), offset)
        ELSE IF cfg.strategy = "baseline"
             THEN RAdd(RAdd(<<item.y, 1>>, Rat(item.fontSize * 75, 100)), offset)
             ELSE IF cfg.strategy = "bottom"
                  THEN RAdd(RSub(<<item.bottom, 1>>,
                                 Rat(item.fontSize * 203, 1000)), offset)
                  ELSE RAdd(<<item.y + item.fontSize, 1>>, offset)

\* const pdfY = pageHeight - ((adjustedY - (pageIndex * windowHeight)) * scaleY);
\* and, in the basic version (part_005:358),
\* pageHeight - (relativeY * scaleY) - (item.fontSize * scaleY).
PdfYOf(version, cfg, item, pageIndex, size) ==
    IF version = "basic"
    THEN RSub(RSub(size.height,
                   RMul(<<RelativeYOf(item.y, pageIndex), 1>>, ScaleY(size))),
              RMul(<<item.fontSize, 1>>, ScaleY(size)))
    ELSE RSub(size.height,
              RMul(RSub(AdjustedYOf(cfg, item), <<pageIndex * WindowHeight, 1>>),
                   ScaleY(size)))

\* pdfFontSize before the width correction: item.fontSize * scaleY in the
\* basic version (part_005:359), adjustedFontSize * scaleY in the other
\* (part_005:1209, :1246).
NominalFontSize(version, item, size) ==
    IF version = "basic"
    THEN RMul(<<item.fontSize, 1>>, ScaleY(size))
    ELSE RMul(RMul(<<item.fontSize, 1>>, FontSizeMultiplier(item)), ScaleY(size))

\* WidthRatioInBounds with || for &&.
WidthRatioEitherBound(widthRatio) ==
    RLt(<<7, 10>>, widthRatio) \/ RLt(widthRatio, <<3, 2>>)

\* if (widthRatio > 0.7 && widthRatio < 1.5)
WidthRatioInBounds(widthRatio) ==
    RLt(<<7, 10>>, widthRatio) /\ RLt(widthRatio, <<3, 2>>)

\* CorrectedFontSize dividing by the ratio.
CorrectedFontSizeDivided(nominal, widthRatio) == RDiv(nominal, widthRatio)

\* pdfFontSize *= widthRatio;
CorrectedFontSize(nominal, widthRatio) == RMul(nominal, widthRatio)

\* The width correction of one item, part_005:1288-1325: the font size
\* drawText gets, and whether itemsAdjusted was incremented.  The text is
\* never empty: the items hold trimmed, non-empty strings.
WidthCorrection(version, item, size, measure) ==
    LET nominal  == NominalFontSize(version, item, size)
        expected == RMul(<<item.width, 1>>, ScaleX(size))
        actual   == RMul(measure.unit, nominal)
        called   == version # "basic" /\ adjustFontSizeToWidth /\ item.width > 0
        measured == called /\ ~measure.throws
        ratio    == IF measured /\ actual[1] > 0 THEN RDiv(expected, actual)
                    ELSE <<1, 1>>
        applied  == measured /\ actual[1] > 0 /\ WidthRatioInBounds(ratio)
    IN  [nominal |-> nominal, expected |-> expected, actual |-> actual,
         called |-> called,
         unit |-> IF measured THEN measure.unit ELSE <<0, 1>>,
         measured |-> measured,
         corrected |-> applied,
         size |-> IF applied THEN CorrectedFontSize(nominal, ratio) ELSE nominal]

\* MeasureErrorEscapes without the inner try: the error of
\* widthOfTextAtSize reaches the outer catch and drawText is not called.
MeasureErrorUncaught(c, measure) == c.called /\ measure.throws

\* part_005:1319-1324  catch (error) { /* silently fail */ } around the
\* measurement: its error never leaves the inner try.
MeasureErrorEscapes(c, measure) == FALSE

CurrentItem == textItems[itemIdx]

\* SkipOutOfBounds without the guard: pages[pageIndex] is undefined and
\* page.getHeight() throws out of overlayTextOnPdf.
SkipOutOfBoundsUnguarded ==
    /\ opc = "loop"
    /\ itemIdx <= Len(textItems)
    /\ PageIndexOf(CurrentItem.y) >= pagesLen
    /\ opc' = "threw"
    /\ UNCHANGED <<rehydrateVersion, pagesLen, pdfSize, adjustFontSizeToWidth,
                   textItems, itemIdx, itemsProcessed, itemsSkipped, itemsAdjusted,
                   drawn, attempt>>
    /\ UNCHANGED <<plannerVars, blocks, otherVars>>

\* if (pageIndex >= pages.length) { itemsSkipped++; continue; }
SkipOutOfBounds ==
    /\ opc = "loop"
    /\ itemIdx <= Len(textItems)
    /\ PageIndexOf(CurrentItem.y) >= pagesLen
    /\ itemsSkipped' = itemsSkipped + 1
    /\ itemIdx' = itemIdx + 1
    /\ UNCHANGED <<rehydrateVersion, pagesLen, pdfSize, adjustFontSizeToWidth,
                   textItems, itemsProcessed, itemsAdjusted, drawn, opc, attempt>>
    /\ UNCHANGED <<plannerVars, blocks, otherVars>>

\* const page = pages[pageIndex]; const pageHeight = page.getHeight();
\* pages[-1] is undefined and the call, outside the try, throws out of
\* overlayTextOnPdf.
PageLookupThrows ==
    /\ opc = "loop"
    /\ itemIdx <= Len(textItems)
    /\ PageIndexOf(CurrentItem.y) < 0
    /\ opc' = "threw"
    /\ UNCHANGED <<rehydrateVersion, pagesLen, pdfSize, adjustFontSizeToWidth,
                   textItems, itemIdx, itemsProcessed, itemsSkipped, itemsAdjusted,
                   drawn, attempt>>
    /\ UNCHANGED <<plannerVars, blocks, otherVars>>

\* The rest of the loop body: the try block with the width correction and
\* page.drawText, which returns or throws into the catch.
DrawItem ==
    /\ opc = "loop"
    /\ itemIdx <= Len(textItems)
    /\ PageIndexOf(CurrentItem.y) >= 0
    /\ PageIndexOf(CurrentItem.y) < pagesLen
    /\ \E measure \in MeasureOutcomes, drawThrows \in BOOLEAN :
         LET c == WidthCorrection(rehydrateVersion, CurrentItem, pdfSize, measure)
         IN  /\ itemsAdjusted' = IF c.corrected THEN itemsAdjusted + 1
                                 ELSE itemsAdjusted
             /\ attempt' = [item |-> itemIdx,
                            measureCalled |-> c.called,
                            measureThrew |-> c.called /\ measure.throws,
                            drawThrew |-> drawThrows,
                            size |-> c.size, nominal |-> c.nominal,
                            tried |-> attempt.tried + 1,
                            drawFailures |-> IF drawThrows
                                             THEN attempt.drawFailures + 1
                                             ELSE attempt.drawFailures]
             /\ IF drawThrows \/ MeasureErrorEscapes(c, measure)
                THEN UNCHANGED <<drawn, itemsProcessed>>
                ELSE /\ drawn' = Append(drawn,
                            [item |-> itemIdx, y |-> CurrentItem.y,
                             pageIndex |-> PageIndexOf(CurrentItem.y),
                             relativeY |-> RelativeYOf(CurrentItem.y,
                                               PageIndexOf(CurrentItem.y)),
                             adjustedY |-> AdjustedYOf(positioning, CurrentItem),
                             pdfY |-> PdfYOf(rehydrateVersion, positioning,
                                             CurrentItem,
                                             PageIndexOf(CurrentItem.y), pdfSize),
                             size |-> c.size, nominal |-> c.nominal,
                             corrected |-> c.corrected, measured |-> c.measured,
                             expected |-> c.expected, actual |-> c.actual,
                             unit |-> c.unit])
                     /\ itemsProcessed' = itemsProcessed + 1
    /\ itemIdx' = itemIdx + 1
    /\ UNCHANGED <<rehydrateVersion, pagesLen, pdfSize, adjustFontSizeToWidth,
                   textItems, itemsSkipped, opc>>
    /\ UNCHANGED <<plannerVars, blocks, otherVars>>

\* After the loop: pdfDoc.save(), fs.writeFile, return outputPath.
SaveAndReturn ==
    /\ opc = "loop"
    /\ itemIdx > Len(textItems)
    /\ opc' = "returned"
    /\ UNCHANGED <<rehydrateVersion, pagesLen, pdfSize, adjustFontSizeToWidth,
                   textItems, itemIdx, itemsProcessed, itemsSkipped, itemsAdjusted,
                   drawn, attempt>>
    /\ UNCHANGED <<plannerVars, blocks, otherVars>>

\* The planner is not running.
PlannerOff ==
    /\ variant = "forward"
    /\ safeCutPoints = <<>>
    /\ givenCutPoints = <<>>
    /\ totalHeight = 0
    /\ pageHeight = WindowHeight
    /\ positions = <<>>
    /\ currentPos = 0
    /\ pc = "off"
    /\ callNo = 0
    /\ firstResult = <<>>
    /\ callsToMake = 0
    /\ blocks = <<>>

\* State at the head of the for-of loop, the PDF loaded.
OverlayInit ==
    /\ PlannerOff
    /\ rehydrateVersion \in {"basic", "tuned"}
    /\ pagesLen \in 1..MaxPages
    /\ pdfSize \in PdfPageSizes
    /\ adjustFontSizeToWidth \in BOOLEAN
    /\ textItems \in SeqsUpTo(ItemChoices, MaxItems)
    /\ itemIdx = 1
    /\ itemsProcessed = 0
    /\ itemsSkipped = 0
    /\ itemsAdjusted = 0
    /\ drawn = <<>>
    /\ opc = "loop"
    /\ attempt = NoAttempt
    /\ OthersOff

OverlayNext == SkipOutOfBounds \/ PageLookupThrows \/ DrawItem \/ SaveAndReturn

OverlaySpec == OverlayInit /\ [][OverlayNext]_vars

\* The same loop over text items that lie at the end of a window.
LineEndInit ==
    /\ PlannerOff
    /\ rehydrateVersion \in {"basic", "tuned"}
    /\ pagesLen \in 1..MaxPages
    /\ pdfSize \in PdfPageSizes
    /\ adjustFontSizeToWidth \in BOOLEAN
    /\ textItems \in SeqsUpTo(LineEndItemChoices, MaxItems)
    /\ itemIdx = 1
    /\ itemsProcessed = 0
    /\ itemsSkipped = 0
    /\ itemsAdjusted = 0
    /\ drawn = <<>>
    /\ opc = "loop"
    /\ attempt = NoAttempt
    /\ OthersOff

LineEndSpec == LineEndInit /\ [][OverlayNext]_vars

\* -------------------------------------------------------------- rehydratePdf

\* Most calls of rehydratePdf one process makes.
MaxRuns == 2

\* An option is <<>> when the caller left it undefined, <<v>> when set to v.
NoOptions ==
    [mode |-> <<>>, adjustWidth |-> <<>>, offsetY |-> <<>>, offsetX |-> <<>>,
     strategy |-> <<>>, preset |-> <<>>, offsetH1 |-> <<>>, offsetH2 |-> <<>>,
     offsetH3 |-> <<>>, offsetBody |-> <<>>]

\* The options objects a caller may pass: none, each group of options on its
\* own, an unknown preset, and what the command line passes when given no
\* flags (part_005:1558-1568).
OptionChoices ==
    { NoOptions,
      [NoOptions EXCEPT !.mode = <<"manual">>, !.strategy = <<"top">>],
      [NoOptions EXCEPT !.adjustWidth = <<FALSE>>],
      [NoOptions EXCEPT !.offsetY = <<5>>, !.offsetX = <<-2>>],
      [NoOptions EXCEPT !.preset = <<"tight">>],
      [NoOptions EXCEPT !.preset = <<"loose">>],
      [NoOptions EXCEPT !.preset = <<"narrow">>],
      [NoOptions EXCEPT !.offsetH1 = <<1>>, !.offsetH2 = <<2>>,
                        !.offsetH3 = <<3>>, !.offsetBody = <<4>>],
      [NoOptions EXCEPT !.mode = <<"auto">>, !.adjustWidth = <<TRUE>>,
                        !.offsetY = <<0>>, !.offsetX = <<0>>,
                        !.strategy = <<"baseline">>] }

\* part_005:1386-1396  const presets = { tight, normal, loose }, in hundredths
Presets ==
    [tight  |-> [h1 |-> 125, h2 |-> 120, h3 |-> 115, h4 |-> 110, h5 |-> 105,
                 h6 |-> 102, body |-> 92],
     normal |-> [h1 |-> 120, h2 |-> 115, h3 |-> 110, h4 |-> 105, h5 |-> 102,
                 h6 |-> 100, body |-> 95],
     loose  |-> [h1 |-> 115, h2 |-> 112, h3 |-> 108, h4 |-> 104, h5 |-> 101,
                 h6 |-> 98, body |-> 98]]

\* if (options.x !== undefined) CONFIG.positioning.x = options.x;  (for mode
\* and strategy the test is truthiness; the strings passed are not empty)
Assigned(current, option) == IF option = <<>> THEN current ELSE option[1]

\* if (options.preset) { const selectedPreset = presets[options.preset];
\*   if (selectedPreset) CONFIG.positioning.fontSizeAdjustments = {...} }
AssignedPreset(current, option) ==
    IF option # <<>> /\ option[1] \in DOMAIN Presets THEN Presets[option[1]]
    ELSE current

\* The static defaults overridden by one options object.
DefaultsWith(options) ==
    [mode |-> Assigned(DefaultPositioning.mode, options.mode),
     strategy |-> Assigned(DefaultPositioning.strategy, options.strategy),
     offsetY |-> Assigned(DefaultPositioning.offsetY, options.offsetY),
     offsetX |-> Assigned(DefaultPositioning.offsetX, options.offsetX),
     fontSizeAdjustments |->
         AssignedPreset(DefaultPositioning.fontSizeAdjustments, options.preset),
     offsetsByType |->
         [DefaultPositioning.offsetsByType EXCEPT
             !.h1 = Assigned(@, options.offsetH1),
             !.h2 = Assigned(@, options.offsetH2),
             !.h3 = Assigned(@, options.offsetH3),
             !.body = Assigned(@, options.offsetBody)]]

\* part_005:1366-1418  "Apply fine-tuning options to CONFIG": the assignments
\* to CONFIG.positioning other than adjustFontSizeToWidth.
ApplyOptions(cfg, options) ==
    [mode |-> Assigned(cfg.mode, options.mode),
     strategy |-> Assigned(cfg.strategy, options.strategy),
     offsetY |-> Assigned(cfg.offsetY, options.offsetY),
     offsetX |-> Assigned(cfg.offsetX, options.offsetX),
     fontSizeAdjustments |->
         AssignedPreset(cfg.fontSizeAdjustments, options.preset),
     offsetsByType |->
         [cfg.offsetsByType EXCEPT
             !.h1 = Assigned(@, options.offsetH1),
             !.h2 = Assigned(@, options.offsetH2),
             !.h3 = Assigned(@, options.offsetH3),
             !.body = Assigned(@, options.offsetBody)]]

\* rehydratePdf(options) is called: the options are written into CONFIG,
\* which the rest of the run (extraction, overlayTextOnPdf) reads.
RehydratePdf ==
    /\ rpc = "idle"
    /\ Len(runs) < MaxRuns
    /\ \E options \in OptionChoices :
         /\ positioning' = ApplyOptions(positioning, options)
         /\ adjustFontSizeToWidth' =
                Assigned(adjustFontSizeToWidth, options.adjustWidth)
         /\ runs' = Append(runs,
                [options |-> options,
                 positioning |-> positioning',
                 adjustFontSizeToWidth |-> adjustFontSizeToWidth'])
    /\ rpc' = "running"
    /\ UNCHANGED <<plannerVars, blocks, derivation, captureVars, laterVars>>
    /\ UNCHANGED <<rehydrateVersion, pagesLen, pdfSize, textItems, itemIdx,
                   itemsProcessed, itemsSkipped, itemsAdjusted, drawn, opc,
                   attempt>>

\* The run ends (its promise settles); CONFIG stays as the run left it.
RehydrateSettles ==
    /\ rpc = "running"
    /\ rpc' = "idle"
    /\ UNCHANGED <<plannerVars, blocks, overlayVars, derivation, captureVars,
                   positioning, runs, laterVars>>

\* The module has just been loaded: CONFIG is as written in the source.
RehydrateInit ==
    /\ PlannerOff
    /\ OverlayOff
    /\ adjustFontSizeToWidth = DefaultAdjustFontSizeToWidth
    /\ derivation = "midpoint"
    /\ captureVersion = "tiled"
    /\ shotIdx = 1
    /\ screenshots = <<>>
    /\ cpc = "off"
    /\ positioning = DefaultPositioning
    /\ runs = <<>>
    /\ rpc = "idle"
    /\ LaterOff

RehydrateNext == RehydratePdf \/ RehydrateSettles

RehydrateSpec == RehydrateInit /\ [][RehydrateNext]_vars

\* ------------------------------------------------- cleanText (sanitization)

\* Longest item text, in UTF-16 code units.
MaxTextLen == 3

\* Code units a text may hold: A, a control character (U+0001), e-acute,
\* the arrow U+2192, the ellipsis U+2026, the euro sign U+20AC, and the
\* three units U+201A U+00DC U+00ED that the arrow pattern of the tuned
\* version is written with.
CodeUnitChoices == {65, 1, 233, 8594, 8230, 8364, 8218, 220, 237}

\* The last code unit of [\x00-\xFF].
LastLatin1 == 255

\* '?'
QuestionMark == 63

\* text.replace(/pattern/g, replacement) for a literal pattern: every match,
\* left to right, matches not overlapping.
RECURSIVE ReplaceAll(_, _, _)
ReplaceAll(text, pattern, replacement) ==
    IF Len(text) < Len(pattern) THEN text
    ELSE IF SubSeq(text, 1, Len(pattern)) = pattern
         THEN replacement \o
              ReplaceAll(SubSeq(text, Len(pattern) + 1, Len(text)), pattern,
                         replacement)
         ELSE <<text[1]>> \o
              ReplaceAll(SubSeq(text, 2, Len(text)), pattern, replacement)

\* The literal patterns and their replacements, in the order of the chain.
\* part_005:366-374: the arrow, the non-breaking hyphen, the en dash, the em
\* dash, four quote patterns (written as the ASCII quotes themselves), the
\* ellipsis.
BasicReplacements ==
    << <<(<<8594>>), <<45, 62>>>>,
       <<(<<8209>>), <<45>>>>,
       <<(<<8211>>), <<45>>>>,
       <<(<<8212>>), <<45, 45>>>>,
       <<(<<39>>), <<39>>>>,
       <<(<<39>>), <<39>>>>,
       <<(<<34>>), <<34>>>>,
       <<(<<34>>), <<34>>>>,
       <<(<<8230>>), <<46, 46, 46>>>> >>

\* part_005:1274-1282: the same chain, its first four patterns and the last
\* written as three code units each (U+201A, then U+00DC U+00ED, or U+00C4
\* with U+00EB, U+00EC, U+00EE, U+00B6).
TunedReplacements ==
    << <<(<<8218, 220, 237>>), <<45, 62>>>>,
       <<(<<8218, 196, 235>>), <<45>>>>,
       <<(<<8218, 196, 236>>), <<45>>>>,
       <<(<<8218, 196, 238>>), <<45, 45>>>>,
       <<(<<39>>), <<39>>>>,
       <<(<<39>>), <<39>>>>,
       <<(<<34>>), <<34>>>>,
       <<(<<34>>), <<34>>>>,
       <<(<<8218, 196, 182>>), <<46, 46, 46>>>> >>

\* The chain of .replace calls with literal patterns, from the k-th on.
RECURSIVE ReplaceChain(_, _, _)
ReplaceChain(text, chain, k) ==
    IF k > Len(chain) THEN text
    ELSE ReplaceChain(ReplaceAll(text, chain[k][1], chain[k][2]), chain, k + 1)

\* .replace(/[\u0080-\u00FF]/g, (c) => c).replace(/[^\x00-\xFF]/g, '?')
ReplaceNonLatin1(text) ==
    [i \in 1..Len(text) |-> IF text[i] > LastLatin1 THEN QuestionMark ELSE text[i]]

\* const cleanText = item.text.replace(...)...  (the tuned version starts
\* from transformedText, item.text when there is no text-transform)
CleanTextOf(version, text) ==
    ReplaceNonLatin1(ReplaceChain(text,
        IF version = "basic" THEN BasicReplacements ELSE TunedReplacements, 1))

\* The try block up to page.drawText(cleanText, ...).
CleanText ==
    /\ tpc = "raw"
    /\ cleanText' = CleanTextOf(sanitizeVersion, itemText)
    /\ tpc' = "clean"
    /\ UNCHANGED <<plannerVars, blocks, overlayVars, derivation, captureVars,
                   configVars, extractVars, mainVars, sanitizeVersion, itemText>>

SanitizeInit ==
    /\ PlannerOff
    /\ OverlayOff
    /\ derivation = "midpoint"
    /\ captureVersion = "tiled"
    /\ shotIdx = 1
    /\ screenshots = <<>>
    /\ cpc = "off"
    /\ positioning = DefaultPositioning
    /\ runs = <<>>
    /\ rpc = "off"
    /\ ExtractOff
    /\ MainOff
    /\ sanitizeVersion \in {"basic", "tuned"}
    /\ itemText \in SeqsUpTo(CodeUnitChoices, MaxTextLen)
    /\ cleanText = <<>>
    /\ tpc = "raw"

SanitizeNext == CleanText

SanitizeSpec == SanitizeInit /\ [][SanitizeNext]_vars

\* ------------------------------------- line splitting of wrapped text nodes

\* Most rects of one text node.
MaxRects == 3

\* Characters of a text node of the equal-count version.
CharChoices == {"a", "b", " "}

\* Characters of a text node of the character-scan version, which looks at
\* a character only to trim it.
ScanCharChoices == {"a", " "}

\* charRect.top of one character.
CharTopChoices == {2, 20}

\* A rect of range.getClientRects(): two lines, an empty rect of each kind.
RectChoices ==
    {[top |-> 0, width |-> 100, height |-> 20],
     [top |-> 20, width |-> 100, height |-> 20],
     [top |-> 20, width |-> 0, height |-> 20],
     [top |-> 40, width |-> 100, height |-> 0]}

\* node.textContent.trim() with text.length > 0
TrimmedTexts(chars) ==
    {t \in SeqsUpTo(chars, MaxTextLen) :
        Len(t) > 0 /\ t[1] # " " /\ t[Len(t)] # " "}

\* rects.length > 1
WrappedRects == {r \in SeqsUpTo(RectChoices, MaxRects) : Len(r) > 1}

\* Math.ceil(a / b) for a >= 0, b > 0
CeilDiv(a, b) == (a + b - 1) \div b

Clamp(i, n) == IF i < 0 THEN 0 ELSE IF i > n THEN n ELSE i

\* The half-open range text.substring(a, b) returns: both indices clamped
\* to [0, text.length], swapped when the first is the larger.
SubstringRange(text, a, b) ==
    LET ca == Clamp(a, Len(text))
        cb == Clamp(b, Len(text))
    IN  IF ca <= cb THEN <<ca, cb>> ELSE <<cb, ca>>

Substring(text, a, b) ==
    LET r == SubstringRange(text, a, b) IN SubSeq(text, r[1] + 1, r[2])

RECURSIVE TrimStart(_)
TrimStart(text) ==
    IF Len(text) > 0 /\ text[1] = " " THEN TrimStart(Tail(text)) ELSE text

RECURSIVE TrimEnd(_)
TrimEnd(text) ==
    IF Len(text) > 0 /\ text[Len(text)] = " "
    THEN TrimEnd(SubSeq(text, 1, Len(text) - 1))
    ELSE text

Trim(text) == TrimEnd(TrimStart(text))

\* CharsPerLine rounding down.
CharsPerLineFloor(text, rs) == Len(text) \div Len(rs)

\* const charsPerLine = Math.ceil(text.length / rects.length)
CharsPerLine(text, rs) == CeilDiv(Len(text), Len(rs))

\* One pass of the equal-count loop, for rect i (1-based here, i - 1 in the
\* code): start, end, the substring, its trimmed form and whether it is
\* pushed.
SplitEqualOf(text, rs, i) ==
    LET charsPerLine == CharsPerLine(text, rs)
        start == (i - 1) * charsPerLine
        end == IF i * charsPerLine < Len(text) THEN i * charsPerLine
               ELSE Len(text)
        lineText == Trim(Substring(text, start, end))
    IN  [rect |-> i, start |-> start, end |-> end,
         range |-> SubstringRange(text, start, end),
         segment |-> Substring(text, start, end),
         text |-> lineText,
         pushed |-> Len(lineText) > 0 /\ rs[i].width > 0 /\ rs[i].height > 0]

SplitEqual ==
    /\ epc = "loop"
    /\ extractVersion = "equal"
    /\ rectIdx <= Len(rects)
    /\ lines' = Append(lines, SplitEqualOf(nodeText, rects, rectIdx))
    /\ rectIdx' = rectIdx + 1
    /\ UNCHANGED <<plannerVars, blocks, overlayVars, derivation, captureVars,
                   configVars, textVars, mainVars, extractVersion, nodeText,
                   charLines, rects, charIndex, epc>>

\* Math.abs(charRect.top - rect.top) < rect.height * 0.3
OnSameLine(charTop, rect) == Abs(charTop - rect.top) * 10 < rect.height * 3

\* for (let j = charIndex; j < text.length; j++) { ... }: the value of
\* lineEnd when the loop ends, j and lineEnd being 0-based as in the code.
RECURSIVE ScanFrom(_, _, _, _, _)
ScanFrom(tops, rect, from, j, lineEnd) ==
    IF j >= Len(tops) THEN lineEnd
    ELSE IF OnSameLine(tops[j + 1], rect)
         THEN ScanFrom(tops, rect, from, j + 1, j + 1)
         ELSE IF j > from THEN lineEnd
              ELSE ScanFrom(tops, rect, from, j + 1, lineEnd)

\* LineEndOf restarting the scan at the first character.
LineEndFromZero(tops, rect, from) == ScanFrom(tops, rect, 0, 0, 0)

\* lineEnd after the inner loop, started with lineEnd = charIndex.
LineEndOf(tops, rect, from) == ScanFrom(tops, rect, from, from, from)

IsEmptyRect(rect) == rect.width = 0 \/ rect.height = 0

\* if (rect.width === 0 || rect.height === 0) continue;
SkipEmptyRect ==
    /\ epc = "loop"
    /\ extractVersion = "scan"
    /\ rectIdx <= Len(rects)
    /\ IsEmptyRect(rects[rectIdx])
    /\ rectIdx' = rectIdx + 1
    /\ UNCHANGED <<plannerVars, blocks, overlayVars, derivation, captureVars,
                   configVars, textVars, mainVars, extractVersion, nodeText,
                   charLines, rects, charIndex, lines, epc>>

\* One pass of the character-scan loop for a rect that is not empty.
ScanRect ==
    /\ epc = "loop"
    /\ extractVersion = "scan"
    /\ rectIdx <= Len(rects)
    /\ ~IsEmptyRect(rects[rectIdx])
    /\ LET lineStart == charIndex
           lineEnd == LineEndOf(charLines, rects[rectIdx], charIndex)
           lineText == Trim(Substring(nodeText, lineStart, lineEnd))
       IN  /\ lines' = Append(lines,
                [rect |-> rectIdx, start |-> lineStart, end |-> lineEnd,
                 range |-> SubstringRange(nodeText, lineStart, lineEnd),
                 segment |-> Substring(nodeText, lineStart, lineEnd),
                 text |-> lineText,
                 pushed |-> Len(lineText) > 0])
           /\ charIndex' = lineEnd
    /\ rectIdx' = rectIdx + 1
    /\ UNCHANGED <<plannerVars, blocks, overlayVars, derivation, captureVars,
                   configVars, textVars, mainVars, extractVersion, nodeText,
                   charLines, rects, epc>>

\* i < rects.length fails: the loop over the rects ends.
RectLoopEnds ==
    /\ epc = "loop"
    /\ rectIdx > Len(rects)
    /\ epc' = "done"
    /\ UNCHANGED <<plannerVars, blocks, overlayVars, derivation, captureVars,
                   configVars, textVars, mainVars, extractVersion, nodeText,
                   charLines, rects, rectIdx, charIndex, lines>>

ExtractInit ==
    /\ PlannerOff
    /\ OverlayOff
    /\ derivation = "midpoint"
    /\ captureVersion = "tiled"
    /\ shotIdx = 1
    /\ screenshots = <<>>
    /\ cpc = "off"
    /\ positioning = DefaultPositioning
    /\ runs = <<>>
    /\ rpc = "off"
    /\ SanitizeOff
    /\ MainOff
    /\ extractVersion \in {"equal", "scan"}
    /\ rects \in WrappedRects
    /\ \/ /\ extractVersion = "equal"
          /\ nodeText \in TrimmedTexts(CharChoices)
          /\ charLines = <<>>
       \/ /\ extractVersion = "scan"
          /\ nodeText \in TrimmedTexts(ScanCharChoices)
          /\ charLines \in [1..Len(nodeText) -> CharTopChoices]
    /\ rectIdx = 1
    /\ charIndex = 0
    /\ lines = <<>>
    /\ epc = "loop"

ExtractNext == SplitEqual \/ SkipEmptyRect \/ ScanRect \/ RectLoopEnds

ExtractSpec == ExtractInit /\ [][ExtractNext]_vars

\* ---------------------------------------------------------------------- main

\* Paths are sequences of pieces: names, "/" and extensions, so that a
\* search for ".pdf" in a path finds the pieces ".pdf" and no others.
\* The default path.join(CONFIG.outputDir, outputFileName), and values of
\* --output: a file of the working directory, a name without extension, an
\* upper-case extension, a directory whose name holds ".pdf".
OutputPathChoices ==
    { <<"exports", "/", "cv", ".pdf">>,
      <<"cv", ".pdf">>,
      <<"cv">>,
      <<"cv", ".PDF">>,
      <<"my", ".pdf", "/", "cv", ".pdf">> }

\* Directories that exist when the raster PDF is written.
ExistingDirs ==
    { <<>>, <<"exports", "/">>, <<"temp", "/">>, <<"my", ".pdf", "/">> }

\* screenshot.path of the pages captured, in order.
ScreenshotNames == <<"page-1", "page-2", "page-3", "page-4">>

ScreenshotPath(i) == <<"temp", "/", ScreenshotNames[i], ".png">>

\* str.replace(piece, replacement) with a string pattern: the first
\* occurrence only.
RECURSIVE ReplaceFirst(_, _, _)
ReplaceFirst(path, piece, replacement) ==
    IF path = <<>> THEN <<>>
    ELSE IF Head(path) = piece THEN replacement \o Tail(path)
         ELSE <<Head(path)>> \o ReplaceFirst(Tail(path), piece, replacement)

\* const rasterOutputPath = outputPath.replace('.pdf', '-raster.pdf');
RasterPathOf(path) == ReplaceFirst(path, ".pdf", <<"-raster", ".pdf">>)

\* The index of the last "/" of a path, 0 when it has none.
LastSlash(path) ==
    LET at == {i \in 1..Len(path) : path[i] = "/"}
    IN  IF at = {} THEN 0 ELSE CHOOSE i \in at : \A j \in at : j <= i

\* path.dirname(path), with its "/"
DirOf(path) == SubSeq(path, 1, LastSlash(path))

\* path.basename(path, '.pdf')
BasenameNoPdf(path) ==
    LET base == SubSeq(path, LastSlash(path) + 1, Len(path))
    IN  IF Len(base) > 1 /\ base[Len(base)] = ".pdf"
        THEN SubSeq(base, 1, Len(base) - 1)
        ELSE base

\* part_005:1517-1518  path.join(CONFIG.outputDir, pdfBasename + '-final.pdf')
FinalPathOf(pdfPath) ==
    <<"exports", "/">> \o BasenameNoPdf(pdfPath) \o <<"-final", ".pdf">>

PathsOf(fs) == {f.path : f \in fs}

FileAt(fs, path) == CHOOSE f \in fs : f.path = path

\* The files after writeFile(path, content): a file is created or replaced.
Written(fs, path, content) ==
    {f \in fs : f.path # path} \cup {[path |-> path, content |-> content]}

\* The files after fs.unlink(path) of a file that exists.
Unlinked(fs, path) == {f \in fs : f.path # path}

\* The files after fs.rename(from, to) of a file that exists: the target is
\* replaced; renaming a file to itself changes nothing.
Renamed(fs, from, to) ==
    IF from = to THEN fs
    ELSE Written(Unlinked(fs, from), to, FileAt(fs, from).content)

MainUnchanged ==
    UNCHANGED <<plannerVars, blocks, overlayVars, derivation, captureVars,
                configVars, textVars, extractVars>>

\* await createPdfFromA4Images(a4Pages, rasterOutputPath): the file is
\* written, or the write fails for want of the directory and the outer
\* catch ends the process with code 1.
CreateRasterPdf ==
    /\ mpc = "raster"
    /\ IF DirOf(RasterPathOf(outputPath)) \in ExistingDirs
       THEN /\ files' = Written(files, RasterPathOf(outputPath), "raster")
            /\ mpc' = "rehydrate"
            /\ UNCHANGED exitCode
       ELSE /\ mpc' = "exited"
            /\ exitCode' = 1
            /\ UNCHANGED files
    /\ UNCHANGED <<outputPath, rehydratedPath>>
    /\ MainUnchanged

\* const rehydratedPath = await rehydratePdf({ input: rasterOutputPath, ... })
\* returns: the rehydrated PDF is at exports/<basename>-final.pdf.
RehydrateReturns ==
    /\ mpc = "rehydrate"
    /\ RasterPathOf(outputPath) \in PathsOf(files)
    /\ rehydratedPath' = FinalPathOf(RasterPathOf(outputPath))
    /\ files' = Written(files, FinalPathOf(RasterPathOf(outputPath)), "rehydrated")
    /\ mpc' = "rename"
    /\ UNCHANGED <<outputPath, exitCode>>
    /\ MainUnchanged

\* rehydratePdf throws (browser, extraction, overlay): nothing was written.
RehydrateThrows ==
    /\ mpc = "rehydrate"
    /\ mpc' = "catch"
    /\ UNCHANGED <<outputPath, files, rehydratedPath, exitCode>>
    /\ MainUnchanged

\* await fs.rename(rehydratedPath, outputPath);
RenameRehydrated ==
    /\ mpc = "rename"
    /\ IF rehydratedPath \in PathsOf(files)
       THEN /\ files' = Renamed(files, rehydratedPath, outputPath)
            /\ mpc' = "unlink"
       ELSE /\ mpc' = "catch"
            /\ UNCHANGED files
    /\ UNCHANGED <<outputPath, rehydratedPath, exitCode>>
    /\ MainUnchanged

\* await fs.unlink(rasterOutputPath);
UnlinkRaster ==
    /\ mpc = "unlink"
    /\ IF RasterPathOf(outputPath) \in PathsOf(files)
       THEN /\ files' = Unlinked(files, RasterPathOf(outputPath))
            /\ mpc' = "cleanup"
       ELSE /\ mpc' = "catch"
            /\ UNCHANGED files
    /\ UNCHANGED <<outputPath, rehydratedPath, exitCode>>
    /\ MainUnchanged

\* catch (e) { if (fsSync.existsSync(rasterOutputPath))
\*               await fs.rename(rasterOutputPath, outputPath); }
FallbackToRaster ==
    /\ mpc = "catch"
    /\ files' = (IF RasterPathOf(outputPath) \in PathsOf(files)
                 THEN Renamed(files, RasterPathOf(outputPath), outputPath)
                 ELSE files)
    /\ mpc' = "cleanup"
    /\ UNCHANGED <<outputPath, rehydratedPath, exitCode>>
    /\ MainUnchanged

\* The screenshots not yet unlinked, by index.
ScreenshotsLeft ==
    {i \in 1..Len(ScreenshotNames) : ScreenshotPath(i) \in PathsOf(files)}

\* The screenshot the cleanup loop is at.
NextScreenshot ==
    CHOOSE i \in ScreenshotsLeft : \A j \in ScreenshotsLeft : i <= j

\* for (const screenshot of screenshots) await fs.unlink(screenshot.path);
UnlinkScreenshot ==
    /\ mpc = "cleanup"
    /\ ScreenshotsLeft # {}
    /\ files' = Unlinked(files, ScreenshotPath(NextScreenshot))
    /\ UNCHANGED <<outputPath, rehydratedPath, mpc, exitCode>>
    /\ MainUnchanged

\* The success message; main returns and the process ends with code 0.
MainReturns ==
    /\ mpc = "cleanup"
    /\ ScreenshotsLeft = {}
    /\ mpc' = "ended"
    /\ exitCode' = 0
    /\ UNCHANGED <<outputPath, files, rehydratedPath>>
    /\ MainUnchanged

\* main has captured MaxPages pages or fewer and is about to write the
\* raster PDF; there may be a PDF of an earlier run at the output path.
MainInit ==
    /\ PlannerOff
    /\ OverlayOff
    /\ derivation = "midpoint"
    /\ captureVersion = "tiled"
    /\ shotIdx = 1
    /\ screenshots = <<>>
    /\ cpc = "off"
    /\ positioning = DefaultPositioning
    /\ runs = <<>>
    /\ rpc = "off"
    /\ SanitizeOff
    /\ ExtractOff
    /\ outputPath \in OutputPathChoices
    /\ \E n \in 1..MaxPages, stale \in BOOLEAN :
          files = {[path |-> ScreenshotPath(i), content |-> "png"] : i \in 1..n}
                  \cup (IF stale
                        THEN {[path |-> outputPath, content |-> "stale"]}
                        ELSE {})
    /\ rehydratedPath = <<>>
    /\ mpc = "raster"
    /\ exitCode = -1

MainNext ==
    \/ CreateRasterPdf \/ RehydrateReturns \/ RehydrateThrows
    \/ RenameRehydrated \/ UnlinkRaster \/ FallbackToRaster
    \/ UnlinkScreenshot \/ MainReturns

MainSpec == MainInit /\ [][MainNext]_vars

\* ------------------------------------------------------------------ claims

Min(S) == CHOOSE x \in S : \A y \in S : x <= y

Last(s) == s[Len(s)]

SpacedByPageHeight ==
    \A i \in 1..(Len(positions) - 1) : positions[i + 1] - positions[i] >= pageHeight

\* C1: in the forward-only planner, consecutive offsets of the plan are at
\* least pageHeight apart, at every point of the computation and for every
\* cut-point list, totalHeight and pageHeight.
C1_NoOverlapForward == variant = "forward" => SpacedByPageHeight

\* C1 witness: a finished forward plan of three pages whose second offset
\* was snapped to a cut point past the ideal position.
C1_Witness ==
    /\ variant = "forward"
    /\ pc = "done"
    /\ Len(positions) >= 3
    /\ positions[2] > pageHeight

\* C2: the planner that also accepts cut points before the ideal position
\* keeps consecutive offsets at least pageHeight apart.
C2_NoOverlapNearest == variant = "nearest" => SpacedByPageHeight

\* C3: in both planners the plan starts with 0 and is strictly increasing.
C3_Monotonic ==
    pc # "idle" =>
        /\ positions[1] = 0
        /\ \A i \in 1..(Len(positions) - 1) : positions[i] < positions[i + 1]

\* C3 witness: a finished plan of the nearest planner that took a cut point
\* before the ideal position.
C3_Witness ==
    /\ variant = "nearest"
    /\ pc = "done"
    /\ Len(positions) >= 3
    /\ \E i \in 1..(Len(positions) - 1) : positions[i + 1] < positions[i] + pageHeight

SnapAfter(cur) ==
    LET ideal == cur + pageHeight
        window == {c \in Elems(safeCutPoints) :
                       ideal <= c /\ c <= ideal + ForwardTolerance}
    IN  IF window # {} THEN Min(window) ELSE ideal

\* C8: every offset of the forward-only plan after the first is the smallest
\* cut point within [ideal, ideal + 200] of its predecessor, or the ideal
\* position when there is none; cut points <<0, 1010>> with pageHeight 1000
\* give 1010 as second offset.
C8_SnapRule ==
    variant = "forward" =>
        /\ \A i \in 1..(Len(positions) - 1) : positions[i + 1] = SnapAfter(positions[i])
        /\ (safeCutPoints = <<0, 1010>> /\ pageHeight = 1000 /\ Len(positions) >= 2)
               => positions[2] = 1010

\* C8 witness: the scenario of the claim, finished.
C8_Witness ==
    /\ variant = "forward"
    /\ pc = "done"
    /\ safeCutPoints = <<0, 1010>>
    /\ pageHeight = 1000
    /\ totalHeight = 3000
    /\ positions[2] = 1010

\* C9: with no cut point other than 0, the returned plan is the multiples
\* k * pageHeight below totalHeight, in order, in both planners.
C9_ForcedEvenSplit ==
    (pc = "done" /\ totalHeight > 0 /\ Elems(safeCutPoints) \subseteq {0}) =>
        /\ Len(positions) =
               Cardinality({k \in 0..totalHeight : k * pageHeight < totalHeight})
        /\ \A i \in 1..Len(positions) : positions[i] = (i - 1) * pageHeight

\* C9 witness: totalHeight 3000, pageHeight 1000, no cut points: [0, 1000, 2000].
C9_Witness ==
    /\ pc = "done"
    /\ safeCutPoints = <<>>
    /\ totalHeight = 3000
    /\ pageHeight = 1000
    /\ positions = <<0, 1000, 2000>>

\* What holds of the returned list.
ReturnedPlanEnds ==
    /\ \A i \in 1..(Len(positions) - 1) : positions[i] + pageHeight < totalHeight
    /\ Last(positions) + pageHeight >= totalHeight

\* C10: every call returns (both planners), and in the returned list every
\* offset but the last has offset + pageHeight < totalHeight while the last
\* has last + pageHeight >= totalHeight.
C10_Terminates ==
    /\ [](pc = "done" => ReturnedPlanEnds)
    /\ <>(pc = "done" /\ callNo = 2)

\* C10 witness: a plan whose last offset was snapped past the end of the
\* document, so that the loop ended on its condition and not on the break.
C10_Witness ==
    /\ pc = "done"
    /\ Len(positions) >= 2
    /\ Last(positions) >= totalHeight

\* The elements a cut point was derived from: those that passed the height
\* filter, when there are at least two of them to take a midpoint between.
UsedBlocks ==
    IF Len(SortedElements(blocks)) >= 2 THEN Elems(SortedElements(blocks)) ELSE {}

StrictlyInside(p, b) == b.y < p /\ p < b.y + b.height

\* No two used elements overlap: taken by ascending top, each ends before
\* the next begins.
BlocksDisjoint ==
    LET sorted == SortedElements(blocks)
    IN  \A i \in 1..(Len(sorted) - 1) :
            sorted[i].y + sorted[i].height <= sorted[i + 1].y

C5_PageIndexBound ==
    \A k \in 1..Len(drawn) :
        LET floorIndex == drawn[k].y \div WindowHeight
        IN  /\ drawn[k].pageIndex = floorIndex
            /\ 0 <= floorIndex
            /\ floorIndex < pagesLen

\* C5 witness: after an item was drawn, the loop reached an item with a
\* negative top, whose page lookup threw instead of drawing it.
C5_Witness ==
    /\ opc = "threw"
    /\ Len(drawn) >= 1
    /\ textItems[itemIdx].y < 0

\* C6: a corrected font size lies within [0.7, 1.5] times the nominal scaled
\* font size; an uncorrected one is the nominal size; and a measured width
\* whose ratio to the expected width is outside [0.7, 1.5] leaves the size
\* uncorrected.
C6_FontSizeBound ==
    \A k \in 1..Len(drawn) :
        LET d == drawn[k]
        IN  /\ d.corrected =>
                  /\ RLe(RMul(<<7, 10>>, d.nominal), d.size)
                  /\ RLe(d.size, RMul(<<3, 2>>, d.nominal))
            /\ ~d.corrected => d.size = d.nominal
            /\ (d.measured /\ d.actual[1] > 0
                /\ (RLt(d.expected, RMul(<<7, 10>>, d.actual))
                    \/ RLt(RMul(<<3, 2>>, d.actual), d.expected)))
                  => d.size = d.nominal

\* C6 witness: expected width 200, measured width 100, font size left at the
\* nominal size; and another item whose size was corrected.
C6_Witness ==
    /\ \E k \in 1..Len(drawn) :
          /\ drawn[k].measured
          /\ drawn[k].expected = <<200, 1>>
          /\ drawn[k].actual = <<100, 1>>
          /\ drawn[k].size = drawn[k].nominal
    /\ \E k \in 1..Len(drawn) :
          drawn[k].corrected /\ drawn[k].size # drawn[k].nominal

\* C11: every text line with top >= 0 that is drawn was given
\* pageIndex = floor(top / windowHeight) and
\* relativeY = top - pageIndex * windowHeight, so that
\* pageIndex * windowHeight + relativeY = top and 0 <= relativeY < windowHeight.
C11_PageRelativePosition ==
    \A i \in 1..Len(drawn) :
        LET d == drawn[i]
        IN  d.y >= 0 =>
              /\ d.pageIndex * WindowHeight <= d.y
              /\ d.y < (d.pageIndex + 1) * WindowHeight
              /\ d.relativeY = d.y - d.pageIndex * WindowHeight
              /\ d.pageIndex * WindowHeight + d.relativeY = d.y
              /\ 0 <= d.relativeY /\ d.relativeY < WindowHeight

\* A line 50 px down the first window and the line at the very top of the
\* second window have both been drawn, on an A4 page.
C11_Witness ==
    /\ pdfSize.height # <<WindowHeight, 1>>
    /\ \E i, j \in 1..Len(drawn) :
          /\ drawn[i].pageIndex = 0 /\ drawn[i].relativeY = 50
          /\ drawn[j].pageIndex = 1 /\ drawn[j].relativeY = 0

\* C12: an item whose pageIndex is >= the number of PDF pages (pageIndex =
\* page count included) is not drawn and raises no error: the loop goes on
\* to the next item with itemsSkipped one higher and with everything the
\* other items are processed with (pages, scale, configuration, the other
\* counters, what was drawn so far) as it was.
C12_OutOfBoundsDrop ==
    [][ (/\ opc = "loop"
         /\ itemIdx <= Len(textItems)
         /\ textItems[itemIdx].y >= pagesLen * WindowHeight)
        => /\ opc' = "loop"
           /\ itemIdx' = itemIdx + 1
           /\ itemsSkipped' = itemsSkipped + 1
           /\ drawn' = drawn
           /\ itemsProcessed' = itemsProcessed
           /\ itemsAdjusted' = itemsAdjusted
           /\ UNCHANGED <<textItems, pagesLen, pdfSize, rehydrateVersion,
                          adjustFontSizeToWidth>> ]_vars

\* The first item had pageIndex = page count and was skipped; the item after
\* it was drawn and the function returned.
C12_Witness ==
    /\ opc = "returned"
    /\ Len(textItems) = 2
    /\ PageIndexOf(textItems[1].y) = pagesLen
    /\ itemsSkipped = 1
    /\ itemsProcessed = 1
    /\ Len(drawn) = 1 /\ drawn[1].item = 2

\* C13: whatever the text items are (any y, drawing or width measurement
\* failing on any of them), overlayTextOnPdf never throws: it goes through
\* every item, saves the PDF and returns.
C13_NoItemAborts ==
    /\ opc # "threw"
    /\ opc = "returned" => itemIdx = Len(textItems) + 1

\* C14: the positioning configuration a rehydratePdf run uses is the static
\* defaults overridden by that run's own options, whatever options earlier
\* calls in the same process were given.
C14_RunIndependence ==
    \A i \in 1..Len(runs) :
        /\ runs[i].positioning = DefaultsWith(runs[i].options)
        /\ runs[i].adjustFontSizeToWidth =
               Assigned(DefaultAdjustFontSizeToWidth, runs[i].options.adjustWidth)

\* The screenshots are those of the first n offsets of the plan, in order.
CapturedPrefix(n) ==
    /\ Len(screenshots) = n
    /\ \A i \in 1..n : screenshots[i] = [page |-> i, offset |-> positions[i]]

\* The offsets of the plan before the first whose window passes the end of
\* the content by more than the tolerance.
FittingPrefix ==
    Cardinality({k \in 1..Len(positions) :
        \A j \in 1..k : positions[j] + WindowHeight <= totalHeight + 100})

C16_CutPointListShape ==
    pc = "idle" =>
        /\ \E i \in 1..Len(safeCutPoints) : safeCutPoints[i] = 0
        /\ \A i, j \in 1..Len(safeCutPoints) :
               i < j => safeCutPoints[i] < safeCutPoints[j]

\* The midpoint form has returned three cut points that it had pushed out
\* of order (elements nested in one another).
C16_Witness ==
    /\ pc = "idle"
    /\ derivation = "midpoint"
    /\ Len(safeCutPoints) = 3
    /\ Len(FindSafeCutPointsAsPushed(blocks)) = 3
    /\ FindSafeCutPointsAsPushed(blocks) # safeCutPoints

\* round((bottom of element i + top of element i + 1) / 2) for the elements
\* that passed the height filter, taken by ascending top.
MidpointsOfKept ==
    LET kept == SortedElements(blocks)
    IN  {((kept[i].y + kept[i].height) + kept[i + 1].y + 1) \div 2 :
            i \in 1..(Len(kept) - 1)}

\* The cut points other than 0 are exactly those midpoints.
CutPointsAreMidpoints ==
    /\ Elems(safeCutPoints) \ {0} \subseteq MidpointsOfKept
    /\ MidpointsOfKept \subseteq Elems(safeCutPoints)

AtLeastMinHeight(b) == b.height >= MinSectionHeight

\* The matched elements without those below the minimum height.
BlocksOfMinHeight == SelectSeq(blocks, AtLeastMinHeight)

\* What the elements of at least the minimum height alone determine: 0 and
\* their rounded midpoints, or 0 and their tops.
CutPointsOfMinHeight ==
    LET kept == SortByY(BlocksOfMinHeight)
    IN  IF derivation = "midpoint"
        THEN {0} \cup {((kept[i].y + kept[i].height) + kept[i + 1].y + 1) \div 2 :
                          i \in 1..(Len(kept) - 1)}
        ELSE {0} \cup {kept[i].y : i \in 1..Len(kept)}

\* C18: elements below minSectionHeight never contribute to the list
\* findSafeCutPoints returns, which is the list the other elements give on
\* their own, an element of exactly minSectionHeight among them.
C18_MinHeightFilter ==
    pc = "idle" =>
        /\ Elems(safeCutPoints) = CutPointsOfMinHeight
        /\ safeCutPoints = (IF derivation = "midpoint"
                            THEN FindSafeCutPointsOf(BlocksOfMinHeight)
                            ELSE FindSafeCutPointsByTopOf(BlocksOfMinHeight))

\* The older form has returned from a list holding an element below the
\* minimum height and one of exactly that height: the top of the second is
\* a cut point, the top of the first is not.
C18_Witness ==
    /\ pc = "idle"
    /\ derivation = "top"
    /\ \E i, j \in 1..Len(blocks) :
          /\ blocks[i].height < MinSectionHeight
          /\ blocks[j].height = MinSectionHeight
          /\ blocks[j].y \in Elems(safeCutPoints)
          /\ blocks[i].y \notin Elems(safeCutPoints)

\* C19: whenever the width correction was applied to an item, the width of
\* its text at the corrected font size (its width at size 1 times that size,
\* as font metrics scale) equals the expected width item.width * scaleX.
C19_WidthMatches ==
    \A i \in 1..Len(drawn) :
        LET d == drawn[i]
        IN  d.corrected =>
              /\ d.expected = RMul(<<textItems[d.item].width, 1>>,
                                   RDiv(pdfSize.width, <<ViewportWidth, 1>>))
              /\ RMul(d.unit, d.size) = d.expected

\* An item was drawn on an A4 page at a font size the correction changed.
C19_Witness ==
    /\ pdfSize.width # <<ViewportWidth, 1>>
    /\ \E i \in 1..Len(drawn) :
          /\ drawn[i].corrected
          /\ drawn[i].size # drawn[i].nominal
          /\ RLt(<<0, 1>>, drawn[i].expected)

WinAnsiExtras ==
    {8364, 8218, 402, 8222, 8230, 8224, 8225, 710, 8240, 352, 8249, 338, 381,
     8216, 8217, 8220, 8221, 8226, 8211, 8212, 732, 8482, 353, 8250, 339, 382,
     376}

WinAnsiEncodes(c) == c \in 32..126 \/ c \in 160..255 \/ c \in WinAnsiExtras

\* C21: whatever the item text, every character of the string handed to
\* drawText is one the output encoding (WinAnsi) has a code for.
C21_CleanTextEncodable ==
    tpc = "clean" => \A i \in 1..Len(cleanText) : WinAnsiEncodes(cleanText[i])

\* The segments of the first k lines, joined in rect order.
RECURSIVE JoinedSegments(_, _)
JoinedSegments(ls, k) ==
    IF k = 0 THEN <<>> ELSE JoinedSegments(ls, k - 1) \o ls[k].segment

\* The ranges of ls are pairwise disjoint: no character index is in two.
RangesDisjoint(ls) ==
    \A i, j \in 1..Len(ls) :
        i < j => \A c \in 0..MaxTextLen :
                    ~(/\ ls[i].range[1] <= c /\ c < ls[i].range[2]
                      /\ ls[j].range[1] <= c /\ c < ls[j].range[2])

\* C22: a text of length L split over N > 1 rects by character count gives,
\* for rect i (0-based), the segment text[i*ceil(L/N), min((i+1)*ceil(L/N),
\* L)); the untrimmed segments are pairwise disjoint, none is longer than
\* ceil(L/N), and joined in rect order they are the text.
C22_EqualCountSplit ==
    extractVersion = "equal" =>
        LET c == CeilDiv(Len(nodeText), Len(rects)) IN
        /\ \A k \in 1..Len(lines) :
              LET lo == (k - 1) * c
                  hi == IF k * c < Len(nodeText) THEN k * c ELSE Len(nodeText)
              IN  /\ lines[k].rect = k
                  /\ lines[k].segment =
                        [n \in 1..(IF hi > lo THEN hi - lo ELSE 0) |->
                            nodeText[lo + n]]
                  /\ Len(lines[k].segment) <= c
        /\ RangesDisjoint(lines)
        /\ epc = "done" =>
              /\ Len(lines) = Len(rects)
              /\ JoinedSegments(lines, Len(lines)) = nodeText

\* A three-character text over two rects is split 2 + 1, and a one-character
\* text over three rects leaves the last rects with nothing.
C22_Witness ==
    /\ extractVersion = "equal"
    /\ epc = "done"
    /\ \/ /\ Len(nodeText) = 3
          /\ Len(rects) = 2
          /\ Len(lines[1].segment) = 2
          /\ Len(lines[2].segment) = 1
          /\ nodeText[2] = " "
       \/ /\ Len(nodeText) = 1
          /\ Len(rects) = 3
          /\ lines[3].start > Len(nodeText)

\* In the character scan charIndex is within the text, and the ranges
\* [lineStart, lineEnd) of successive rects are in source order, each
\* starting where the one before ended, hence pairwise disjoint.
ScanRangesOrdered ==
    extractVersion = "scan" =>
        /\ 0 <= charIndex
        /\ charIndex <= Len(nodeText)
        /\ \A k \in 1..Len(lines) :
              /\ lines[k].start <= lines[k].end
              /\ lines[k].end <= Len(nodeText)
              /\ lines[k].start = (IF k = 1 THEN 0 ELSE lines[k - 1].end)
              /\ \A n \in 1..(k - 1) : lines[n].rect < lines[k].rect
        /\ Len(lines) > 0 => charIndex = lines[Len(lines)].end
        /\ RangesDisjoint(lines)

\* C29: while the rects of a wrapped text node are scanned, charIndex never
\* decreases and never exceeds the text length, and the character ranges
\* emitted for successive rects are pairwise disjoint and in source order.
C29_CharIndexScan ==
    /\ []ScanRangesOrdered
    /\ [][extractVersion = "scan" => charIndex' >= charIndex]_vars

\* Two rects each took a part of the text, after a rect that was skipped or
\* matched nothing moved on without consuming any.
C29_Witness ==
    /\ extractVersion = "scan"
    /\ epc = "done"
    /\ Len(lines) = 2
    /\ lines[1].end > lines[1].start
    /\ lines[2].end > lines[2].start
    /\ lines[2].rect = 3
    /\ charIndex = Len(nodeText)

\* Row y lies in the window [offset, offset + pageHeight) of some offset of
\* the plan.
RowCaptured(y) ==
    \E i \in 1..Len(positions) :
        positions[i] <= y /\ y < positions[i] + pageHeight

\* The rows that can be the first row outside every window: row 0 and the
\* row just past the end of each window.
FirstRowsPastWindows ==
    {0} \cup {positions[i] + pageHeight : i \in 1..Len(positions)}

\* C23: every row y with 0 <= y < totalHeight lies in the fixed-height
\* window of at least one offset of the plan the forward planner returns.
\* (If a row is outside every window, so is the first such row, which is
\* row 0 or the row just past a window.)
C23_NoSkippedRows ==
    (variant = "forward" /\ pc = "done") =>
        \A y \in FirstRowsPastWindows :
            (0 <= y /\ y < totalHeight) => RowCaptured(y)

\* Tops a text line of slice i can have: the first and the last row of the
\* window captured at positions[i].
WindowEdgeTops(i) == {positions[i], positions[i] + pageHeight - 1}

\* C24: for a text line of the document whose top t lies in the window
\* captured at the i-th offset of the plan (i counted from 0), the page index
\* the reconciler computes, floor(t / windowHeight), is i, whatever plan the
\* planner returned.
C24_PlannerReconcilerAgree ==
    (pc = "done" /\ pageHeight = WindowHeight) =>
        \A i \in 1..Len(positions) :
            \A t \in WindowEdgeTops(i) :
                (0 <= t /\ t < totalHeight) => PageIndexOf(t) = i - 1

\* C28: for totalHeight > 0 and pageHeight > 0 the forward planner returns
\* at least one offset and at most ceil(totalHeight / pageHeight) of them:
\* snapping to cut points never gives more pages than the even split.
C28_PageCountBound ==
    (variant = "forward" /\ pc = "done" /\ totalHeight > 0 /\ pageHeight > 0) =>
        /\ Len(positions) >= 1
        /\ Len(positions) <= CeilDiv(totalHeight, pageHeight)

\* The forward planner has returned a plan of several pages with an offset
\* snapped to a cut point, as many pages as the even split has.
C28_Witness ==
    /\ variant = "forward"
    /\ pc = "done"
    /\ totalHeight > 0
    /\ Len(positions) >= 3
    /\ Len(positions) = CeilDiv(totalHeight, pageHeight)
    /\ \E i \in 1..Len(positions) : positions[i] % pageHeight # 0

\* C25: with zero offsets, every item the tuned overlayTextOnPdf draws is
\* drawn at y = pageHeight - (adjustedY - pageIndex * windowHeight) * scaleY
\* with 0 <= y <= pageHeight, also a line whose top is on page k and whose
\* baseline is past the end of page k.
C25_DrawnOnPage ==
    (rehydrateVersion = "tuned" /\ positioning.offsetY = 0) =>
        \A k \in 1..Len(drawn) :
            /\ RLe(<<0, 1>>, drawn[k].pdfY)
            /\ RLe(drawn[k].pdfY, pdfSize.height)

\* Every item the loop has passed is in exactly one of the three groups:
\* drawn, skipped as out of bounds, dropped because drawText threw.
ItemsAccounted ==
    /\ itemsProcessed + itemsSkipped + attempt.drawFailures = itemIdx - 1
    /\ itemsProcessed + itemsSkipped <= Len(textItems)
    /\ itemsAdjusted <= attempt.tried
    /\ attempt.tried = itemsProcessed + attempt.drawFailures
    /\ opc = "returned" =>
          (itemsProcessed + itemsSkipped = Len(textItems)
              <=> attempt.drawFailures = 0)

\* One pass of the loop raises itemsProcessed + itemsSkipped by at most one,
\* and nothing else changes the counters.
CountedAtMostOnce ==
    LET counted == itemsProcessed + itemsSkipped
        countedAfter == itemsProcessed' + itemsSkipped'
    IN  /\ itemsProcessed' >= itemsProcessed
        /\ itemsSkipped' >= itemsSkipped
        /\ countedAfter <= counted + 1
        /\ countedAfter = counted + 1 => itemIdx' = itemIdx + 1
        /\ itemIdx' = itemIdx => countedAfter = counted

C27_OutputPresentAtEnd ==
    /\ mpc = "ended" =>
          /\ exitCode = 0
          /\ outputPath \in PathsOf(files)
          /\ FileAt(files, outputPath).content \in {"raster", "rehydrated"}
    /\ mpc = "exited" => ~(RasterPathOf(outputPath) \in PathsOf(files))

====
